---- MODULE Spec2Model ----
(***************************************************************************)
(* The Pushover relay: main() validates its configuration, installs the   *)
(* default logger, registers loggingMiddleware(createMainHandler(..)) on   *)
(* "/" and starts one listener; each request runs through the middleware   *)
(* and the handler.                                                        *)
(*                                                                         *)
(* Conventions.                                                            *)
(*  - An environment variable is <<>> when unset and <<v>> when set to v.  *)
(*  - A request body is a sequence of byte values.                         *)
(*  - A response body is the sequence of lines written to the              *)
(*    ResponseWriter; every write the program makes ends with a newline    *)
(*    (http.Error prints its text with Fprintln, the handler writes        *)
(*    "Notification sent.\n"), so a line stands for its text followed by   *)
(*    "\n" on the wire.                                                    *)
(*  - resp[r] is what the handler hands to the ResponseWriter.             *)
(***************************************************************************)
EXTENDS Integers, Sequences, FiniteSets, TLC

\* ---------------------------------------------------------------- bounds

\* Request slots of the transport (requests the listener can hold).
NumSlots == 2
\* Requests dispatched during one run of the process.
MaxRequests == 2
\* Longest request body, in bytes.
MaxBodyLen == 2
\* The monotonic clock stops advancing at this reading (in ticks).
MaxClock == 2
\* Clock ticks per millisecond.
TicksPerMs == 2

Slots == 1..NumSlots

\* ---------------------------------------------------------------- inputs

EnvNames == {"PUSHOVER_TOKEN", "PUSHOVER_USER_KEY", "VERSION",
             "AWS_LAMBDA_FUNCTION_NAME", "PORT"}

AllEnvironments ==
    [PUSHOVER_TOKEN : {<<>>, <<"">>, <<"app-token">>},
     PUSHOVER_USER_KEY : {<<>>, <<"">>, <<"test-user-key">>},
     VERSION : {<<>>, <<"v1.2.3">>},
     AWS_LAMBDA_FUNCTION_NAME : {<<>>, <<"">>, <<"protect">>},
     PORT : {<<>>, <<"">>, <<"3000">>}]

\* The environments a run starts in.  PORT is varied only where main reads
\* it, outside Lambda.
Environments ==
    {e \in AllEnvironments :
        e.AWS_LAMBDA_FUNCTION_NAME # <<>> => e.PORT = <<>>}

Methods == {"GET", "POST", "PUT"}
Paths == {"/", "/hook"}
\* the bytes of ' ' and 'a'
Bytes == {32, 97}

RECURSIVE SeqsUpTo(_, _)
SeqsUpTo(S, n) ==
    IF n = 0 THEN {<<>>}
    ELSE LET shorter == SeqsUpTo(S, n - 1)
         IN shorter \cup {Append(s, x) : s \in {t \in shorter : Len(t) = n - 1}, x \in S}

Bodies == SeqsUpTo(Bytes, MaxBodyLen)

\* io.ReadAll's error, <<>> when the read succeeds
ReadErrors == {<<>>, <<"unexpected EOF">>}
\* SendMessage's error, <<>> when it succeeds
SendErrors == {<<>>, <<"pushover: invalid token">>}
\* what the delivery service answers on success
SendResponses == {[Status |-> 1, ID |-> "test-request-id"]}
\* lambdacontext.FromContext: <<>> when the context holds none, else <<AwsRequestID>>
LambdaContexts == {<<>>, <<"">>, <<"aws-req-1">>}
\* gateway.RequestContext: <<>> when the context holds none, else <<RequestID>>
GatewayContexts == {<<>>, <<"gw-req-1">>}
\* the error ListenAndServe returns
ListenErrors == {"listen tcp: address already in use", "http: Server closed"}

RemoteAddrs == {"192.0.2.1:1234"}
UserAgents == {"curl/8.0"}
\* the error of a failed write of the response, and of a failed Body.Close
WriteErrors == {<<>>, <<"write: broken pipe">>}
CloseErrors == {<<>>, <<"close: connection reset">>}

NoRequest == [method |-> "", path |-> "", body |-> <<>>, readErr |-> <<>>,
              lambdaCtx |-> <<>>, gatewayCtx |-> <<>>,
              remoteAddr |-> "", userAgent |-> "",
              writeErr |-> <<>>, closeErr |-> <<>>]

\* The requests the transport can dispatch, each with what its connection
\* will answer to the write of the response and to Body.Close.  A body
\* whose read fails is given no content: the handler drops whatever
\* io.ReadAll returned with the error.
Requests ==
    {q \in [method : Methods, path : Paths, body : Bodies, readErr : ReadErrors,
            lambdaCtx : LambdaContexts, gatewayCtx : GatewayContexts,
            remoteAddr : RemoteAddrs, userAgent : UserAgents,
            writeErr : WriteErrors, closeErr : CloseErrors] :
        q.readErr # <<>> => q.body = <<>>}


\* ------------------------------------------------- net/http status codes

StatusOK == 200
StatusBadRequest == 400
StatusMethodNotAllowed == 405
StatusInternalServerError == 500

\* ------------------------------------------------------------- os, slog

\* os.Getenv: the value, "" when the variable is unset
Getenv(e, name) == IF e[name] = <<>> THEN "" ELSE e[name][1]

\* os.LookupEnv's ok: whether the variable is set, whatever its value
LookupEnvOk(e, name) == e[name] # <<>>

\* the logger slog.Default() returns before main installs one
StdLogger == [format |-> "std", attrs |-> <<>>]

\* slog.New(handler.WithAttrs(...)) and logger.With(key, value)
With(logger, key, value) ==
    [logger EXCEPT !.attrs = Append(@, <<key, value>>)]

\* the value a logger carries for a key, <<>> when it carries none
AttrOf(logger, key) ==
    LET idx == {i \in 1..Len(logger.attrs) : logger.attrs[i][1] = key}
    IN IF idx = {} THEN <<>> ELSE <<logger.attrs[CHOOSE i \in idx : TRUE][2]>>

\* one record of a logger
LogEvent(logger, level, msg, args) ==
    [kind |-> "log", level |-> level, msg |-> msg, logger |-> logger, args |-> args]

\* one write of the handler to its ResponseWriter, as it appears in the
\* request's trace
WriteEvent(code, line) ==
    [kind |-> "response", level |-> "", msg |-> line, logger |-> StdLogger,
     args |-> << <<"status", code>> >>]

\* ------------------------------------------------------ ResponseWriter

HeaderNames == {"X-Request-ID", "X-Version", "Content-Type", "X-Content-Type-Options"}

\* status 0: no status line written yet
NewResponse == [status |-> 0, header |-> [h \in HeaderNames |-> <<>>], body |-> <<>>]

HeaderSet(w, name, value) == [w EXCEPT !.header[name] = <<value>>]

\* WriteHeader: the first status written is the response's status
WriteHeader(w, code) == IF w.status = 0 THEN [w EXCEPT !.status = code] ELSE w

\* Write: commits status 200 when none was written, then adds the line
Write(w, line) ==
    LET c == WriteHeader(w, StatusOK) IN [c EXCEPT !.body = Append(@, line)]

\* http.Error: plain-text headers, the status, the text on a line of its own
HttpError(w, text, code) ==
    LET h1 == HeaderSet(w, "Content-Type", "text/plain; charset=utf-8")
        h2 == HeaderSet(h1, "X-Content-Type-Options", "nosniff")
        h3 == WriteHeader(h2, code)
    IN [h3 EXCEPT !.body = Append(@, text)]

\* ------------------------------------------------------------ pushover

\* pushover.NewMessage and pushover.NewRecipient
NewMessage(text) == [Message |-> text]
NewRecipient(key) == [token |-> key]


\* ---------------------------------------------------------- the program

\* a check that ends the run only when both settings are missing
ConfigMissingBoth(token, key) == token = "" /\ key = ""

\* main's test of its two required settings
ConfigMissing(token, key) == token = "" \/ key = ""

\* main's choice of transport
IsLambda(e) == LookupEnvOk(e, "AWS_LAMBDA_FUNCTION_NAME")

\* the default logger main installs
ConfiguredLogger(lambda, version) ==
    With([format |-> IF lambda THEN "json" ELSE "text", attrs |-> <<>>],
         "version", version)

\* the port taken from PORT with no default
ListenPortNoDefault(port) == port

\* the port main listens on outside Lambda
ListenPort(port) == IF port = "" THEN "8080" ELSE port

\* the listener main starts
ListenerFor(lambda, e) ==
    IF lambda
    THEN [kind |-> "gateway", addr |-> ""]
    ELSE [kind |-> "http", addr |-> ":" \o ListenPort(Getenv(e, "PORT"))]

\* what main logs before it starts the listener
StartingEvent(logger, lambda, e) ==
    IF lambda
    THEN LogEvent(logger, "INFO", "starting in AWS Lambda mode", <<>>)
    ELSE LogEvent(logger, "INFO", "starting HTTP server",
                  << <<"port", ListenPort(Getenv(e, "PORT"))>> >>)

\* a lookup that asks the gateway first
getRequestIDGatewayFirst(lambdaCtx, gatewayCtx) ==
    IF gatewayCtx # <<>>
    THEN gatewayCtx[1]
    ELSE IF lambdaCtx # <<>> THEN lambdaCtx[1] ELSE ""

\* getRequestID: the Lambda invocation id, else the gateway's request id,
\* else ""
getRequestID(lambdaCtx, gatewayCtx) ==
    IF lambdaCtx # <<>> /\ lambdaCtx[1] # ""
    THEN lambdaCtx[1]
    ELSE IF gatewayCtx # <<>> THEN gatewayCtx[1] ELSE ""

\* a handler that logs with the default logger, whatever its context holds
getLoggerAlwaysDefault(ctxLogger, default) == default

\* getLoggerFromContext: the context's logger, else the default logger
getLoggerFromContext(ctxLogger, default) ==
    IF ctxLogger # <<>> THEN ctxLogger[1] ELSE default

\* a gate that turns away GET alone
MethodAllowedNotGet(method) == method # "GET"

\* the handler's method gate
MethodAllowed(method) == method = "POST"

\* a conversion that trims spaces from both ends
RECURSIVE TrimSpace(_)
TrimSpace(b) ==
    IF b = <<>> THEN b
    ELSE IF Head(b) = 32 THEN TrimSpace(Tail(b))
    ELSE IF b[Len(b)] = 32 THEN TrimSpace(SubSeq(b, 1, Len(b) - 1))
    ELSE b

\* string(bodyBytes): the same bytes, unchanged
StringOfBytes(b) == b

\* a version that falls back to "unknown"
VersionHeaderOrUnknown(e) ==
    IF Getenv(e, "VERSION") = "" THEN "unknown" ELSE Getenv(e, "VERSION")

\* the X-Version value the handler sets
VersionHeader(e) == Getenv(e, "VERSION")

\* a handler that overlooks the read's error
ReadFailedNever(err) == FALSE

\* the handler's test of io.ReadAll's error
ReadFailed(err) == err # <<>>

\* a handler that overlooks the send's error
SendFailedNever(err) == FALSE

\* the handler's test of SendMessage's error
SendFailed(err) == err # <<>>

\* a duration taken the wrong way round
DurationMsReversed(start, t) == (start - t) \div TicksPerMs

\* time.Since(start).Milliseconds() at clock reading t
DurationMs(start, t) == (t - start) \div TicksPerMs

\* ------------------------------------------------------------- state

VARIABLES
    env,            \* the process environment
    mainPc,         \* where main is
    userKey,        \* pushoverUserKey, captured by the handler
    clientToken,    \* the token of the DefaultPushoverClient
    appVersion,     \* main's appVersion
    isLambda,       \* main's isLambda
    defaultLogger,  \* slog.Default()
    registered,     \* the patterns registered with the default mux
    listeners,      \* the listeners started, in order
    listenErr,      \* what the listener returned, <<>> while none did
    procLog,        \* what main itself logged
    now,            \* the monotonic clock
    served,         \* requests dispatched so far
    rpc,            \* per slot: where the request is
    req,            \* per slot: the request
    mw,             \* per slot: the middleware's locals
    hd,             \* per slot: the handler's locals
    resp,           \* per slot: the ResponseWriter
    trace,          \* per slot: the request's log events and response writes
    sent            \* per slot: the SendMessage calls made for the request

mainVars == <<env, mainPc, userKey, clientToken, appVersion, isLambda,
              defaultLogger, registered, listeners, listenErr, procLog>>
reqVars == <<served, rpc, req, mw, hd, resp, trace, sent>>
vars == <<mainVars, now, reqVars>>

NoMw == [start |-> 0, requestID |-> "", logger |-> <<>>, ctxLogger |-> <<>>]
NoHd == [logger |-> <<>>, recipient |-> <<>>, bodyBytes |-> <<>>,
         message |-> <<>>, sendErr |-> <<>>]

Init ==
    /\ env \in Environments
    /\ mainPc = "start"
    /\ userKey = ""
    /\ clientToken = ""
    /\ appVersion = ""
    /\ isLambda = FALSE
    /\ defaultLogger = StdLogger
    /\ registered = {}
    /\ listeners = <<>>
    /\ listenErr = <<>>
    /\ procLog = <<>>
    /\ now = 0
    /\ served = 0
    /\ rpc = [r \in Slots |-> "idle"]
    /\ req = [r \in Slots |-> NoRequest]
    /\ mw = [r \in Slots |-> NoMw]
    /\ hd = [r \in Slots |-> NoHd]
    /\ resp = [r \in Slots |-> NewResponse]
    /\ trace = [r \in Slots |-> <<>>]
    /\ sent = [r \in Slots |-> <<>>]

\* ------------------------------------------------------------- main

\* main, to the end of its configuration check: log.Fatal ends the process
MainValidate ==
    /\ mainPc = "start"
    /\ LET token == Getenv(env, "PUSHOVER_TOKEN")
           key == Getenv(env, "PUSHOVER_USER_KEY")
       IN IF ConfigMissing(token, key)
          THEN /\ mainPc' = "fatal"
               /\ procLog' = Append(procLog, LogEvent(StdLogger, "FATAL",
                      "PUSHOVER_TOKEN and PUSHOVER_USER_KEY environment variables must be set", <<>>))
               /\ UNCHANGED <<userKey, clientToken, appVersion>>
          ELSE /\ mainPc' = "configure"
               /\ appVersion' = Getenv(env, "VERSION")
               /\ clientToken' = token
               /\ userKey' = key
               /\ UNCHANGED procLog
    /\ UNCHANGED <<env, isLambda, defaultLogger, registered, listeners, listenErr,
                   now, reqVars>>

\* main: the default logger
MainConfigureLogger ==
    /\ mainPc = "configure"
    /\ isLambda' = IsLambda(env)
    /\ defaultLogger' = ConfiguredLogger(IsLambda(env), appVersion)
    /\ mainPc' = "register"
    /\ UNCHANGED <<env, userKey, clientToken, appVersion, registered, listeners,
                   listenErr, procLog, now, reqVars>>

\* main: http.Handle("/", loggingMiddleware(mainHandler))
MainRegister ==
    /\ mainPc = "register"
    /\ registered' = registered \cup {"/"}
    /\ mainPc' = "listen"
    /\ UNCHANGED <<env, userKey, clientToken, appVersion, isLambda, defaultLogger,
                   listeners, listenErr, procLog, now, reqVars>>

\* main: the starting message and the call of ListenAndServe
MainListen ==
    /\ mainPc = "listen"
    /\ procLog' = Append(procLog, StartingEvent(defaultLogger, isLambda, env))
    /\ listeners' = Append(listeners, ListenerFor(isLambda, env))
    /\ mainPc' = "listening"
    /\ UNCHANGED <<env, userKey, clientToken, appVersion, isLambda, defaultLogger,
                   registered, listenErr, now, reqVars>>

\* ListenAndServe returns, as it does on any error of the listener; main
\* logs slog.Error("server stopped", ...) and returns.  That ends the
\* process, and with it every request it was handling.
ListenerReturns ==
    /\ mainPc = "listening"
    /\ \E e \in ListenErrors :
          /\ listenErr' = <<e>>
          /\ procLog' = Append(procLog, LogEvent(defaultLogger, "ERROR", "server stopped",
                                                 << <<"error", e>> >>))
    /\ mainPc' = "exited"
    /\ rpc' = [r \in Slots |-> "idle"]
    /\ req' = [r \in Slots |-> NoRequest]
    /\ mw' = [r \in Slots |-> NoMw]
    /\ hd' = [r \in Slots |-> NoHd]
    /\ resp' = [r \in Slots |-> NewResponse]
    /\ trace' = [r \in Slots |-> <<>>]
    /\ sent' = [r \in Slots |-> <<>>]
    /\ UNCHANGED <<env, userKey, clientToken, appVersion, isLambda, defaultLogger,
                   registered, listeners, now, served>>

\* the listener accepts requests and runs their handlers
Serving == mainPc = "listening"

\* the clock advances; only the readings taken while a request is handled
\* are ever looked at
Tick ==
    /\ Serving
    /\ \E r \in Slots : rpc[r] \notin {"idle", "done"}
    /\ now < MaxClock
    /\ now' = now + 1
    /\ UNCHANGED <<mainVars, reqVars>>


\* ------------------------------------------------------- one request

\* the handler chain of a slot runs while the process does
Running(r, at) == Serving /\ rpc[r] = at

\* The listener hands a request of Q to the handler registered on "/",
\* in a goroutine of its own, whatever the other requests are doing.  The
\* request takes the lowest free slot.
DispatchOf(r, Q) ==
    /\ Serving
    /\ "/" \in registered
    /\ served < MaxRequests
    /\ rpc[r] = "idle"
    /\ \A p \in Slots : rpc[p] = "idle" => r <= p
    /\ \E q \in Q : req' = [req EXCEPT ![r] = q]
    /\ rpc' = [rpc EXCEPT ![r] = "middleware"]
    /\ served' = served + 1
    /\ UNCHANGED <<mainVars, now, mw, hd, resp, trace, sent>>

\* loggingMiddleware, up to its call of next.ServeHTTP
MwStart(r) ==
    /\ Running(r, "middleware")
    /\ LET id == getRequestID(req[r].lambdaCtx, req[r].gatewayCtx)
           logger == With(defaultLogger, "requestId", id)
       IN /\ mw' = [mw EXCEPT ![r] = [start |-> now, requestID |-> id,
                                       logger |-> <<logger>>, ctxLogger |-> <<logger>>]]
          /\ resp' = [resp EXCEPT ![r] = HeaderSet(@, "X-Request-ID", id)]
          /\ trace' = [trace EXCEPT ![r] = Append(@,
                 LogEvent(logger, "INFO", "request started",
                          << <<"method", req[r].method>>, <<"path", req[r].path>>,
                             <<"remote_addr", req[r].remoteAddr>>,
                             <<"user_agent", req[r].userAgent>> >>))]
    /\ rpc' = [rpc EXCEPT ![r] = "handler"]
    /\ UNCHANGED <<mainVars, now, served, req, hd, sent>>

\* the handler: the method gate, the version header, the recipient
HandlerEnter(r) ==
    /\ Running(r, "handler")
    /\ LET logger == getLoggerFromContext(mw[r].ctxLogger, defaultLogger)
       IN IF ~MethodAllowed(req[r].method)
          THEN /\ trace' = [trace EXCEPT ![r] = @ \o
                     << LogEvent(logger, "INFO", "method not allowed",
                                 << <<"method", req[r].method>> >>),
                        WriteEvent(StatusMethodNotAllowed, "Method not allowed") >>]
               /\ resp' = [resp EXCEPT ![r] =
                     HttpError(@, "Method not allowed", StatusMethodNotAllowed)]
               /\ hd' = [hd EXCEPT ![r].logger = <<logger>>]
               /\ rpc' = [rpc EXCEPT ![r] = "after"]
          ELSE /\ resp' = [resp EXCEPT ![r] = HeaderSet(@, "X-Version", VersionHeader(env))]
               /\ hd' = [hd EXCEPT ![r].logger = <<logger>>,
                                   ![r].recipient = <<NewRecipient(userKey)>>]
               /\ rpc' = [rpc EXCEPT ![r] = "read"]
               /\ UNCHANGED trace
    /\ UNCHANGED <<mainVars, now, served, req, mw, sent>>

\* the handler: io.ReadAll, the payload's log line, the message
HandlerRead(r) ==
    /\ Running(r, "read")
    /\ LET logger == hd[r].logger[1]
       IN IF ReadFailed(req[r].readErr)
          THEN /\ trace' = [trace EXCEPT ![r] = @ \o
                     << LogEvent(logger, "ERROR", "failed reading request body",
                                 << <<"error", req[r].readErr[1]>> >>),
                        WriteEvent(StatusBadRequest, "Error reading request body") >>]
               /\ resp' = [resp EXCEPT ![r] =
                     HttpError(@, "Error reading request body", StatusBadRequest)]
               /\ rpc' = [rpc EXCEPT ![r] = "after"]
               /\ UNCHANGED hd
          ELSE /\ trace' = [trace EXCEPT ![r] = Append(@,
                     LogEvent(logger, "INFO", "received POST payload",
                              << <<"content_length", Len(req[r].body)>>,
                                 <<"payload", StringOfBytes(req[r].body)>> >>))]
               /\ hd' = [hd EXCEPT ![r].bodyBytes = req[r].body,
                                   ![r].message = <<NewMessage(StringOfBytes(req[r].body))>>]
               /\ rpc' = [rpc EXCEPT ![r] = "send"]
               /\ UNCHANGED resp
    /\ UNCHANGED <<mainVars, now, served, req, mw, sent>>

\* the handler calls pushoverClient.SendMessage(message, recipient)
HandlerSendCall(r) ==
    /\ Running(r, "send")
    /\ sent' = [sent EXCEPT ![r] = Append(@, [message |-> hd[r].message[1],
                                              recipient |-> hd[r].recipient[1],
                                              token |-> clientToken])]
    /\ rpc' = [rpc EXCEPT ![r] = "sending"]
    /\ UNCHANGED <<mainVars, now, served, req, mw, hd, resp, trace>>

\* a handler that sends again when the send failed
AfterSendRetry(err) == IF err # <<>> THEN "send" ELSE "after"

\* where the handler goes once SendMessage returned: it returns, whatever
\* the outcome
AfterSendPc(err) == "after"

\* what the handler logs and writes once SendMessage returned err (and
\* response): the events, in order, and the ResponseWriter
AfterSend(logger, w, err, response, writeErr) ==
    IF SendFailed(err)
    THEN [events |-> << LogEvent(logger, "ERROR", "failed sending pushover message",
                                 << <<"error", err[1]>> >>),
                        WriteEvent(StatusInternalServerError, "Error sending notification") >>,
          w |-> HttpError(w, "Error sending notification", StatusInternalServerError)]
    ELSE [events |-> << LogEvent(logger, "INFO", "pushover notification sent",
                                 << <<"status", response.Status>>,
                                    <<"response_id", response.ID>> >>),
                        WriteEvent(StatusOK, "Notification sent.") >>
                     \o (IF writeErr # <<>>
                         THEN << LogEvent(logger, "ERROR", "writing response",
                                          << <<"error", writeErr[1]>> >>) >>
                         ELSE <<>>),
          w |-> Write(w, "Notification sent.")]

\* the deferred r.Body.Close()
DeferredClose(logger, closeErr) ==
    IF closeErr # <<>>
    THEN << LogEvent(logger, "ERROR", "failed closing request body",
                     << <<"error", closeErr[1]>> >>) >>
    ELSE <<>>

\* SendMessage returns; the handler answers and returns, closing the body
HandlerSendReturn(r) ==
    /\ Running(r, "sending")
    /\ \E err \in SendErrors, response \in SendResponses :
          LET logger == hd[r].logger[1]
              out == AfterSend(logger, resp[r], err, response, req[r].writeErr)
          IN /\ trace' = [trace EXCEPT ![r] =
                    @ \o out.events \o DeferredClose(logger, req[r].closeErr)]
             /\ resp' = [resp EXCEPT ![r] = out.w]
             /\ hd' = [hd EXCEPT ![r].sendErr = err]
             /\ rpc' = [rpc EXCEPT ![r] = AfterSendPc(err)]
    /\ UNCHANGED <<mainVars, now, served, req, mw, sent>>

\* loggingMiddleware, after next.ServeHTTP returned
MwComplete(r) ==
    /\ Running(r, "after")
    /\ trace' = [trace EXCEPT ![r] = Append(@,
           LogEvent(mw[r].logger[1], "INFO", "request completed",
                    << <<"method", req[r].method>>, <<"path", req[r].path>>,
                       <<"duration_ms", DurationMs(mw[r].start, now)>> >>))]
    /\ rpc' = [rpc EXCEPT ![r] = "done"]
    /\ UNCHANGED <<mainVars, now, served, req, mw, hd, resp, sent>>

\* the transport has delivered the response; the request's values are gone
Discard(r) ==
    /\ Running(r, "done")
    /\ rpc' = [rpc EXCEPT ![r] = "idle"]
    /\ req' = [req EXCEPT ![r] = NoRequest]
    /\ mw' = [mw EXCEPT ![r] = NoMw]
    /\ hd' = [hd EXCEPT ![r] = NoHd]
    /\ resp' = [resp EXCEPT ![r] = NewResponse]
    /\ trace' = [trace EXCEPT ![r] = <<>>]
    /\ sent' = [sent EXCEPT ![r] = <<>>]
    /\ UNCHANGED <<mainVars, now, served>>

\* ------------------------------------------------------------ the runs
\* Requests are handled concurrently in every run.  Each specification
\* draws the environment and the requests from the sets that vary what its
\* claims are about; the clock advances in SpecClock alone and stands
\* still elsewhere (every duration is 0).

\* both required settings present, outside Lambda, PORT unset
PlainEnvironments ==
    {e \in Environments :
        /\ e.PUSHOVER_TOKEN = <<"app-token">>
        /\ e.PUSHOVER_USER_KEY = <<"test-user-key">>
        /\ e.AWS_LAMBDA_FUNCTION_NAME = <<>>
        /\ e.PORT = <<>>}

\* requests on a sound connection that carry no identifier
PlainRequests ==
    {q \in Requests :
        /\ q.lambdaCtx = <<>> /\ q.gatewayCtx = <<>>
        /\ q.writeErr = <<>> /\ q.closeErr = <<>>}

\* the steps of main
MainSteps ==
    \/ MainValidate
    \/ MainConfigureLogger
    \/ MainRegister
    \/ MainListen
    \/ ListenerReturns

\* the steps of the handler chain for the request of a slot
ServeSteps(r) ==
    \/ MwStart(r)
    \/ HandlerEnter(r)
    \/ HandlerRead(r)
    \/ HandlerSendCall(r)
    \/ HandlerSendReturn(r)
    \/ MwComplete(r)
    \/ Discard(r)

\* Spec: every path through the handler.  GET and PUT on both paths, with
\* and without a body; a POST whose read fails; a POST that is read, on a
\* sound connection and on one that fails the write and the close.  The
\* version is set or unset.
HandlerRequests ==
    {q \in Requests :
        /\ q.lambdaCtx = <<>> /\ q.gatewayCtx = <<>>
        /\ IF q.method # "POST"
           THEN /\ q.body \in {<<>>, <<97, 32>>}
                /\ q.readErr = <<>> /\ q.writeErr = <<>> /\ q.closeErr = <<>>
           ELSE /\ q.path = "/"
                /\ q.body = IF q.readErr # <<>> THEN <<>> ELSE <<97>>
                /\ (q.writeErr = <<>>) = (q.closeErr = <<>>)
                /\ q.readErr # <<>> => q.writeErr = <<>>}

Dispatch(r) == DispatchOf(r, HandlerRequests)

InitHandler == Init /\ env \in PlainEnvironments

Next == MainSteps \/ \E r \in Slots : Dispatch(r) \/ ServeSteps(r)

Spec == InitHandler /\ [][Next]_vars

\* SpecBodies: POSTs of the empty body and of every body of the greatest
\* length.
BodyRequests ==
    {q \in PlainRequests :
        /\ q.method = "POST" /\ q.path = "/" /\ q.readErr = <<>>
        /\ Len(q.body) \in {0, MaxBodyLen}}

DispatchBodies(r) == DispatchOf(r, BodyRequests)

InitBodies == Init /\ env \in PlainEnvironments /\ env.VERSION # <<>>

NextBodies == MainSteps \/ \E r \in Slots : DispatchBodies(r) \/ ServeSteps(r)

SpecBodies == InitBodies /\ [][NextBodies]_vars

\* SpecClock: the clock advances; one request for each answer (405, 400,
\* and 200 or 500).
ClockRequests ==
    {q \in PlainRequests :
        /\ q.method \in {"GET", "POST"}
        /\ q.path = "/"
        /\ q.body = IF q.method = "POST" /\ q.readErr = <<>> THEN <<97>> ELSE <<>>
        /\ q.method = "GET" => q.readErr = <<>>}

DispatchClock(r) == DispatchOf(r, ClockRequests)

InitClock == Init /\ env \in PlainEnvironments /\ env.VERSION # <<>>

NextClock == MainSteps \/ Tick \/ \E r \in Slots : DispatchClock(r) \/ ServeSteps(r)

SpecClock == InitClock /\ [][NextClock]_vars

\* SpecStartup: every environment; a GET and a POST.
StartupRequests ==
    {q \in PlainRequests :
        /\ q.method \in {"GET", "POST"}
        /\ q.path = "/"
        /\ q.readErr = <<>>
        /\ q.body = IF q.method = "POST" THEN <<97>> ELSE <<>>}

DispatchStartup(r) == DispatchOf(r, StartupRequests)

NextStartup == MainSteps \/ \E r \in Slots : DispatchStartup(r) \/ ServeSteps(r)

SpecStartup == Init /\ [][NextStartup]_vars

\* SpecConc: every source of the correlation identifier on a POST whose
\* body is read, and a GET that carries none; in and outside Lambda.
ConcEnvironments ==
    {e \in Environments :
        /\ e.VERSION # <<>>
        /\ e.PUSHOVER_TOKEN = <<"app-token">>
        /\ e.PUSHOVER_USER_KEY = <<"test-user-key">>
        /\ e.PORT = <<>>
        /\ e.AWS_LAMBDA_FUNCTION_NAME \in {<<>>, <<"protect">>}}

ConcRequests ==
    {q \in Requests :
        /\ q.method \in {"GET", "POST"}
        /\ q.path = "/"
        /\ q.readErr = <<>>
        /\ q.writeErr = <<>> /\ q.closeErr = <<>>
        /\ q.body = IF q.method = "GET" THEN <<>> ELSE <<97>>
        /\ q.method = "GET" => q.lambdaCtx = <<>> /\ q.gatewayCtx = <<>>}

InitConc == Init /\ env \in ConcEnvironments

DispatchConc(r) == DispatchOf(r, ConcRequests)

NextConc == MainSteps \/ \E r \in Slots : DispatchConc(r) \/ ServeSteps(r)

SpecConc == InitConc /\ [][NextConc]_vars


\* ------------------------------------------------------------ properties

\* the messages of the log events of a trace
LogMsgs(t) == {t[i].msg : i \in {j \in 1..Len(t) : t[j].kind = "log"}}

\* the lines a trace's response writes carry
WrittenLines(t) == {t[i].msg : i \in {j \in 1..Len(t) : t[j].kind = "response"}}

\* the log lines that tell of a delivery
DeliveryMsgs == {"received POST payload", "failed sending pushover message",
                 "pushover notification sent"}

\* the handler of the slot's request has returned
HandlerReturned(r) == rpc[r] \in {"after", "done"}

\* C1: a request whose method is not POST is answered 405 "Method not
\* allowed"; SendMessage is never called for it and none of the delivery
\* log lines (payload received, send failed, notification sent) is written.
C1_NonPostRejected ==
    \A r \in Slots :
        (rpc[r] # "idle" /\ req[r].method # "POST") =>
            /\ sent[r] = <<>>
            /\ LogMsgs(trace[r]) \cap DeliveryMsgs = {}
            /\ HandlerReturned(r) =>
                  /\ resp[r].status = 405
                  /\ resp[r].body = <<"Method not allowed">>

\* a PUT to /hook with a body has been answered 405 while a POST is
\* inside SendMessage
C1_Witness ==
    \E r, p \in Slots :
        /\ rpc[r] = "done"
        /\ req[r].method = "PUT"
        /\ req[r].path = "/hook"
        /\ req[r].body = <<97, 32>>
        /\ resp[r].status = 405
        /\ rpc[p] = "sending"

\* C2: for a POST whose body was read, SendMessage receives exactly one
\* message whose content is the body's bytes, unchanged (the empty body
\* included), with exactly one recipient made from the user key main gave
\* to createMainHandler.
C2_MessageIsBodyVerbatim ==
    \A r \in Slots :
        (req[r].method = "POST" /\ req[r].readErr = <<>>
            /\ rpc[r] \in {"sending", "after", "done"}) =>
            /\ Len(sent[r]) = 1
            /\ sent[r][1].message = [Message |-> req[r].body]
            /\ sent[r][1].recipient = [token |-> userKey]
            /\ userKey = env.PUSHOVER_USER_KEY[1]

\* the empty body has been sent as the empty message while a body that
\* begins and ends with a space is being sent
C2_Witness ==
    \E r, p \in Slots :
        /\ rpc[r] = "done"
        /\ req[r].method = "POST"
        /\ req[r].body = <<>>
        /\ req[r].readErr = <<>>
        /\ sent[r] = << [message |-> [Message |-> <<>>],
                         recipient |-> [token |-> "test-user-key"],
                         token |-> "app-token"] >>
        /\ rpc[p] = "sending"
        /\ Len(req[p].body) = MaxBodyLen
        /\ req[p].body[1] = 32 /\ req[p].body[MaxBodyLen] = 32
        /\ sent[p][1].message = [Message |-> req[p].body]

\* C3: for a POST whose body was read, once SendMessage returned: without
\* error the answer is 200 and its body holds "Notification sent."; with an
\* error the answer is 500 "Error sending notification" and the
\* confirmation is never written.
C3_SendOutcomeMapsToStatus ==
    \A r \in Slots :
        (HandlerReturned(r) /\ req[r].method = "POST" /\ req[r].readErr = <<>>) =>
            IF hd[r].sendErr = <<>>
            THEN /\ resp[r].status = 200
                 /\ \E i \in 1..Len(resp[r].body) : resp[r].body[i] = "Notification sent."
            ELSE /\ resp[r].status = 500
                 /\ resp[r].body = <<"Error sending notification">>
                 /\ "Notification sent." \notin WrittenLines(trace[r])

\* a failed send has been answered 500 and, at the same time, a send
\* that went through 200
C3_Witness ==
    \E r, p \in Slots :
        /\ rpc[r] = "done"
        /\ Len(sent[r]) = 1
        /\ hd[r].sendErr = <<"pushover: invalid token">>
        /\ resp[r].status = 500
        /\ rpc[p] = "after"
        /\ hd[p].sendErr = <<>>
        /\ resp[p].status = 200

\* C4 as claimed: every response the handler produces, the 405, 400 and
\* 500 answers included, carries X-Version, equal to the Version Tag.
C4_Claimed_VersionOnEveryResponse ==
    \A r \in Slots :
        resp[r].status # 0 => resp[r].header["X-Version"] = <<Getenv(env, "VERSION")>>

\* C4, amended: every response to a POST (200, 400 and 500) carries
\* X-Version, equal to the VERSION setting, which is the version main gave
\* the logger; a 405 answer carries no X-Version.
C4_VersionOnPostResponses ==
    \A r \in Slots :
        resp[r].status # 0 =>
            IF req[r].method = "POST"
            THEN /\ resp[r].status \in {200, 400, 500}
                 /\ resp[r].header["X-Version"] = <<Getenv(env, "VERSION")>>
                 /\ resp[r].header["X-Version"] = <<appVersion>>
            ELSE /\ resp[r].status = 405
                 /\ resp[r].header["X-Version"] = <<>>

\* a 400 answer carries the version, with VERSION unset
C4_Witness ==
    \E r \in Slots :
        /\ rpc[r] = "done"
        /\ resp[r].status = 400
        /\ env.VERSION = <<>>
        /\ resp[r].header["X-Version"] = <<"">>

\* C5: a POST whose body cannot be read is answered 400 "Error reading
\* request body", the error is logged, and SendMessage is never called.
C5_ReadFailureRejected ==
    \A r \in Slots :
        (req[r].method = "POST" /\ req[r].readErr # <<>>) =>
            /\ sent[r] = <<>>
            /\ HandlerReturned(r) =>
                  /\ resp[r].status = 400
                  /\ resp[r].body = <<"Error reading request body">>
                  /\ \E i \in 1..Len(trace[r]) :
                        /\ trace[r][i].kind = "log"
                        /\ trace[r][i].level = "ERROR"
                        /\ trace[r][i].msg = "failed reading request body"
                        /\ trace[r][i].args = << <<"error", req[r].readErr[1]>> >>

\* a failed read has been answered 400 while a POST that was read is
\* inside SendMessage
C5_Witness ==
    \E r, p \in Slots :
        /\ rpc[r] = "done"
        /\ req[r].method = "POST"
        /\ req[r].readErr = <<"unexpected EOF">>
        /\ resp[r].status = 400
        /\ rpc[p] = "sending"

\* the places of a trace that hold the log line msg
PlacesOf(t, msg) == {i \in 1..Len(t) : t[i].kind = "log" /\ t[i].msg = msg}

\* C6: whatever the method and the outcome (405, 400, 500 or 200), the
\* middleware logs "request started" exactly once before the handler runs
\* and "request completed" exactly once after it returned; every log line
\* of the handler and the response's write lie between the two, and the
\* completed line's duration is not negative.
C6_StartedThenCompleted ==
    \A r \in Slots :
        LET t == trace[r]
            started == PlacesOf(t, "request started")
            completed == PlacesOf(t, "request completed")
        IN /\ rpc[r] \in {"idle", "middleware"} => t = <<>>
           /\ rpc[r] \in {"handler", "read", "send", "sending", "after"} =>
                 /\ started = {1}
                 /\ completed = {}
           /\ rpc[r] \in {"handler"} => Len(t) = 1
           /\ rpc[r] = "done" =>
                 /\ started = {1}
                 /\ completed = {Len(t)}
                 /\ resp[r].status \in {200, 400, 405, 500}
                 /\ \E i \in 2..(Len(t) - 1) : t[i].kind = "response"
                 /\ t[Len(t)].args[3][1] = "duration_ms"
                 /\ t[Len(t)].args[3][2] >= 0

\* a request answered 500 has completed after a full millisecond, while
\* another request, started and not completed, is inside SendMessage
C6_Witness ==
    \E r, p \in Slots :
        /\ rpc[r] = "done"
        /\ resp[r].status = 500
        /\ trace[r][Len(trace[r])].msg = "request completed"
        /\ trace[r][Len(trace[r])].args[3] = <<"duration_ms", 1>>
        /\ rpc[p] = "sending"

\* C7: when PUSHOVER_TOKEN or PUSHOVER_USER_KEY is unset or empty the
\* process ends before a handler is registered or a listener started, and
\* no request is ever served.
C7_MissingConfigNeverServes ==
    (env.PUSHOVER_TOKEN \in {<<>>, <<"">>} \/ env.PUSHOVER_USER_KEY \in {<<>>, <<"">>}) =>
        /\ mainPc \in {"start", "fatal"}
        /\ registered = {}
        /\ listeners = <<>>
        /\ served = 0
        /\ \A r \in Slots : rpc[r] = "idle" /\ trace[r] = <<>>

\* the run has ended on an empty recipient key, the token being set
C7_Witness ==
    /\ mainPc = "fatal"
    /\ env.PUSHOVER_TOKEN = <<"app-token">>
    /\ env.PUSHOVER_USER_KEY = <<"">>
    /\ Len(procLog) = 1
    /\ procLog[1].level = "FATAL"

\* the identifier the priority rule gives a request
ExpectedRequestID(q) ==
    IF q.lambdaCtx \notin {<<>>, <<"">>}
    THEN q.lambdaCtx[1]
    ELSE IF q.gatewayCtx # <<>> THEN q.gatewayCtx[1] ELSE ""

\* C8: the correlation identifier is the Lambda invocation id when there is
\* one, else the gateway's request id, else ""; that value is the
\* X-Request-ID header and the requestId of the request's logger, and a
\* request without identifier is handled like any other.
C8_RequestIdPriority ==
    \A r \in Slots :
        rpc[r] \notin {"idle", "middleware"} =>
            LET id == ExpectedRequestID(req[r])
            IN /\ mw[r].requestID = id
               /\ resp[r].header["X-Request-ID"] = <<id>>
               /\ AttrOf(mw[r].logger[1], "requestId") = <<id>>
               /\ mw[r].ctxLogger = mw[r].logger
               /\ \A i \in 1..Len(trace[r]) :
                     trace[r][i].kind = "log" =>
                        AttrOf(trace[r][i].logger, "requestId") = <<id>>
               /\ (rpc[r] = "done" /\ id = "") =>
                     resp[r].status =
                        IF req[r].method # "POST" THEN 405
                        ELSE IF req[r].readErr # <<>> THEN 400
                        ELSE IF hd[r].sendErr # <<>> THEN 500 ELSE 200

\* a request with an empty invocation id and a gateway id carries the
\* gateway's
C8_Witness ==
    \E r \in Slots :
        /\ rpc[r] = "done"
        /\ req[r].lambdaCtx = <<"">>
        /\ req[r].gatewayCtx = <<"gw-req-1">>
        /\ resp[r].header["X-Request-ID"] = <<"gw-req-1">>

\* C9: a run that passes the configuration check starts exactly one
\* listener: the gateway's if and only if AWS_LAMBDA_FUNCTION_NAME is set,
\* else an HTTP listener on PORT, on 8080 when PORT is unset or empty; when
\* the listener returns its error is logged at error level and the process
\* ends with no other listener started.
C9_ExactlyOneListener ==
    /\ mainPc \in {"start", "fatal", "configure", "register", "listen"} => listeners = <<>>
    /\ mainPc \in {"listening", "exited"} =>
          /\ Len(listeners) = 1
          /\ listeners[1].kind = "gateway" <=> env.AWS_LAMBDA_FUNCTION_NAME # <<>>
          /\ listeners[1].kind # "gateway" =>
                /\ listeners[1].kind = "http"
                /\ listeners[1].addr =
                      IF env.PORT \in {<<>>, <<"">>} THEN ":8080" ELSE ":" \o env.PORT[1]
    /\ mainPc = "exited" =>
          /\ listenErr # <<>>
          /\ procLog[Len(procLog)].level = "ERROR"
          /\ procLog[Len(procLog)].msg = "server stopped"
          /\ procLog[Len(procLog)].args = << <<"error", listenErr[1]>> >>
          /\ ~ENABLED MainListen

\* the HTTP listener of a run with an empty PORT was on :8080 and returned
C9_Witness ==
    /\ mainPc = "exited"
    /\ env.PORT = <<"">>
    /\ listeners = << [kind |-> "http", addr |-> ":8080"] >>

\* C10: SendMessage is called at most once for a request, a failed send
\* is not tried again, and once the handler returned it was called exactly
\* once if and only if the method is POST and the body was read.
C10_AtMostOneSend ==
    \A r \in Slots :
        /\ Len(sent[r]) <= 1
        /\ HandlerReturned(r) =>
              (Len(sent[r]) = 1 <=> (req[r].method = "POST" /\ req[r].readErr = <<>>))

\* a failed send was made once and the request is over, while another
\* request's one send has failed as well
C10_Witness ==
    \E r, p \in Slots :
        /\ r # p
        /\ rpc[r] = "done"
        /\ hd[r].sendErr # <<>>
        /\ Len(sent[r]) = 1
        /\ resp[r].status = 500
        /\ rpc[p] = "after"
        /\ hd[p].sendErr # <<>>
        /\ Len(sent[p]) = 1

\* all a slot holds of its request
SlotState(r) == <<rpc[r], req[r], mw[r], hd[r], resp[r], trace[r], sent[r]>>

\* every log line of a slot's request was written by the logger derived
\* for that request: the default logger with the request's own identifier,
\* and so with no other request's
LogsCarryOwnRequestID ==
    \A r \in Slots :
        \A i \in 1..Len(trace[r]) :
            trace[r][i].kind = "log" =>
                /\ trace[r][i].logger =
                      [format |-> defaultLogger.format,
                       attrs |-> defaultLogger.attrs \o
                                 << <<"requestId", ExpectedRequestID(req[r])>> >>]
                /\ \A q \in Slots \ {r} :
                      (rpc[q] # "idle"
                          /\ ExpectedRequestID(req[q]) # ExpectedRequestID(req[r])) =>
                          AttrOf(trace[r][i].logger, "requestId")
                              # <<ExpectedRequestID(req[q])>>

\* the default logger, once the listener is started, is the one main made
\* from the transport's format and the version
DefaultLoggerIsMains ==
    listeners # <<>> =>
        defaultLogger =
            [format |-> IF env.AWS_LAMBDA_FUNCTION_NAME # <<>> THEN "json" ELSE "text",
             attrs |-> << <<"version", Getenv(env, "VERSION")>> >>]

\* a step taken while the listener serves leaves the default logger and
\* all else main set up as they are, and changes what at most one request
\* holds
RequestStepsAreLocal ==
    (listeners # <<>> /\ mainPc' = "listening") =>
        /\ defaultLogger' = defaultLogger
        /\ mainVars' = mainVars
        /\ Cardinality({r \in Slots : SlotState(r)' # SlotState(r)}) <= 1

\* C11: however concurrently handled requests interleave, every log line
\* the middleware or the handler writes for a request carries the
\* correlation identifier derived for that request and no other request's;
\* the requests share only the process-wide default logger, which is set
\* before the listener starts and never changed afterwards.
C11_LoggersAreRequestLocal ==
    /\ [](LogsCarryOwnRequestID /\ DefaultLoggerIsMains)
    /\ [][RequestStepsAreLocal /\ (listeners # <<>> => defaultLogger' = defaultLogger)]_vars

\* two requests with different identifiers are in their handlers at once,
\* each with log lines of the middleware and of the handler
C11_Witness ==
    /\ rpc[1] = "sending"
    /\ rpc[2] = "after"
    /\ mw[1].requestID = "aws-req-1"
    /\ mw[2].requestID = "gw-req-1"
    /\ Cardinality(LogMsgs(trace[1])) = 2
    /\ "failed sending pushover message" \in LogMsgs(trace[2])

====
